---- MODULE Spec2Model ----
(***************************************************************************)
(* The dependency-tracking engine of neumannt/memorysafety                 *)
(* (memorysafety.cpp, here src/unnamed/part_002) as a state machine.       *)
(*                                                                         *)
(* Object records live in the nodes of the std::unordered_map `lookup`.    *)
(* An Object* is the name of the memory it points to: the memory that      *)
(* holds the record of address a is slot a; memory that lookup.erase() has *)
(* freed while Dependency records still point to it is a slot above NAddr  *)
(* and keeps its last contents, as freed memory does.  When the allocator  *)
(* hands such memory out for a new record, the pointers to it lead to the  *)
(* new record.  A Dependency* is the number of a Dependency record,        *)
(* nullptr is Null.                                                        *)
(*                                                                         *)
(* The violation handler is the recording handler of the tests: it notes   *)
(* the address and returns (set_violation_handler, lines 393-395).         *)
(***************************************************************************)
EXTENDS Integers, Sequences, FiniteSets, TLC

\* Bounds of the model.
NAddr == 3
MaxDeps == 2
MaxCalls == 4
MaxNodes == 5
MaxLen == 3
MaxStringCalls == 3

Addr == 1..NAddr
DepId == 1..MaxDeps
\* Memory that holds or has held an Object: a record erased with
\* dependencies holds at least one of the MaxDeps Dependency records.
Slot == 1..(NAddr + MaxDeps)

Null == 0

\* Body(e), with e evaluated once.
Let(e, Body(_)) == CHOOSE r \in {Body(x) : x \in {e}} : TRUE

VARIABLES
    initialized,  \* MemorySafety::initialized
    lookup,       \* MemorySafety::lookup: address -> its Object (slot a for a), Null if absent
    objects,      \* the memory of every slot: an Object
    deps,         \* the memory of every Dependency record
    allocated,    \* the Dependency records that are allocated (new ... delete)
    events,       \* what the last call did: <<"invalid", s>> it set isValid of s to false
                  \* (<<"cascade", s>> too if s had content dependents then),
                  \* <<"upgrade", d>> it made d a content dependency, <<"uaf", s>> it
                  \* used memory s through a pointer to a record erased before
    pc,           \* "idle" between calls, else the loop the running call never leaves
    last,         \* the last public call: [op, a, b]
    reports,      \* the violation handler's invocations during the last call
    calls,        \* the number of calls made, where the specification counts them
    strings       \* the ms_string objects of the program: address -> [ptr, size, capacity]

vars == <<initialized, lookup, objects, deps, allocated, events, pc, last, reports, calls,
          strings>>

\* Object(): the default member initialisers.
NewObject == [dependencies |-> Null, incoming |-> [c \in BOOLEAN |-> Null], isValid |-> TRUE]

\* new Dependency(): value-initialised.
NewDependency ==
    [A |-> Null, B |-> Null, content |-> FALSE, parent |-> Null, left |-> Null,
     right |-> Null, prev |-> Null, next |-> Null]

\* The engine's memory as one value, threaded through the member functions.
Heap ==
    [lookup |-> lookup, obj |-> objects, dep |-> deps, alloc |-> allocated,
     ev |-> {}, pc |-> pc]

LiveSlots(h) == {h.lookup[a] : a \in Addr} \ {Null}

\* The nodes of the tree below d.
RECURSIVE TreeNodes(_, _)
TreeNodes(dp, d) ==
    IF d = Null THEN {}
    ELSE {d} \cup TreeNodes(dp, dp[d].left) \cup TreeNodes(dp, dp[d].right)

\* The nodes of the list from d on.
RECURSIVE ListNodes(_, _)
ListNodes(dp, d) == IF d = Null THEN {} ELSE {d} \cup ListNodes(dp, dp[d].next)

\* Dependency::link
DepLink(h, d) ==
    LET B == h.dep[d].B
        c == h.dep[d].content
        next == h.obj[B].incoming[c]
        d1 == [h.dep EXCEPT ![d].prev = Null, ![d].next = next]
        d2 == IF next # Null THEN [d1 EXCEPT ![next].prev = d] ELSE d1
    IN  [h EXCEPT !.dep = d2, !.obj[B].incoming[c] = d]

\* Dependency::unlink
DepUnlink(h, d) ==
    LET r == h.dep[d]
        d1 == IF r.prev # Null THEN [h.dep EXCEPT ![r.prev].next = r.next] ELSE h.dep
        o1 == IF r.prev # Null THEN h.obj
              ELSE [h.obj EXCEPT ![r.B].incoming[r.content] = r.next]
        d2 == IF r.next # Null THEN [d1 EXCEPT ![r.next].prev = r.prev] ELSE d1
    IN  [h EXCEPT !.dep = [d2 EXCEPT ![d].prev = Null, ![d].next = Null], !.obj = o1]

\* delete n
DeleteDep(h, n) ==
    [h EXCEPT !.alloc = h.alloc \ {n}, !.dep[n] = NewDependency]

\* Object::invalidate, the loop "Drop all dependencies": the tree is flattened
\* by rotations, each node without a left child is unlinked and deleted.
RECURSIVE DropLoop(_, _)
DropLoop(h, d) ==
    IF d = Null THEN h
    ELSE IF h.dep[d].left # Null
    THEN LET n == h.dep[d].left
         IN  DropLoop([h EXCEPT !.dep = [h.dep EXCEPT ![d].left = h.dep[n].right,
                                                      ![n].right = d]], n)
    ELSE DropLoop(DeleteDep(DepUnlink(h, d), d), h.dep[d].right)

\* dep->A of a record on an incoming list is dereferenced.  The record it
\* points to is gone when lookup has erased it since (the slot is free, or
\* holds another record by now, whose tree does not hold dep).
Dangling(h, d) ==
    \/ h.dep[d].A \notin LiveSlots(h)
    \/ d \notin TreeNodes(h.dep, h.obj[h.dep[d].A].dependencies)

Deref(h, d) ==
    IF Dangling(h, d) THEN [h EXCEPT !.ev = @ \cup {<<"uaf", h.dep[d].A>>}] ELSE h

RECURSIVE Invalidate(_, _)
RECURSIVE IncomingLoop(_, _, _)

\* Object::invalidateIncoming, one of its two loops:
\*    while (incoming[c]) incoming[c]->A->invalidate();
\* An iteration that changes nothing is repeated for ever.
IncomingLoop(h, s, c) ==
    LET d == h.obj[s].incoming[c]
    IN  IF h.pc # "idle" \/ d = Null THEN h
        ELSE Let(Deref(h, d), LAMBDA h0 :
             Let(Invalidate(h0, h0.dep[d].A), LAMBDA h1 :
                 IF h1.pc # "idle" THEN h1
                 ELSE IF h1 = h0 THEN [h1 EXCEPT !.pc = "invalidateIncoming"]
                 ELSE IncomingLoop(h1, s, c)))

\* Mutant: the existence list is never processed.
InvalidateIncomingContentListOnly(h, s, contentOnly) == IncomingLoop(h, s, TRUE)

\* Mutant: the two lists are mixed up (incoming[0] for incoming[1]).
InvalidateIncomingSwapped(h, s, contentOnly) ==
    Let(IncomingLoop(h, s, FALSE), LAMBDA h1 :
        IF contentOnly THEN h1 ELSE IncomingLoop(h1, s, TRUE))

\* Mutant: contentOnly is ignored, both lists are always processed.
InvalidateIncomingBoth(h, s, contentOnly) ==
    Let(IncomingLoop(h, s, TRUE), LAMBDA h1 : IncomingLoop(h1, s, FALSE))

\* Object::invalidateIncoming
InvalidateIncoming(h, s, contentOnly) ==
    Let(IncomingLoop(h, s, TRUE), LAMBDA h1 :
        IF contentOnly THEN h1 ELSE IncomingLoop(h1, s, FALSE))

\* Mutant: the object is marked invalid but its dependents are not.
InvalidateNoCascade(h, s) ==
    DropLoop([h EXCEPT !.obj[s].isValid = FALSE, !.obj[s].dependencies = Null,
                       !.ev = @ \cup (IF h.obj[s].isValid THEN {<<"invalid", s>>} ELSE {})],
             h.obj[s].dependencies)

\* Mutant: invalidate() cascades through both incoming lists
\* (invalidateIncoming(false) for invalidateIncoming(true)).
InvalidateCascadesAll(h, s) ==
    Let(IF h.obj[s].isValid
        THEN InvalidateIncoming([h EXCEPT !.obj[s].isValid = FALSE,
                                          !.ev = @ \cup {<<"invalid", s>>}],
                                s, FALSE)
        ELSE h,
        LAMBDA h1 :
            IF h1.pc # "idle" THEN h1
            ELSE DropLoop([h1 EXCEPT !.obj[s].dependencies = Null],
                          h1.obj[s].dependencies))

\* Object::invalidate
Invalidate(h, s) ==
    Let(IF h.obj[s].isValid
        THEN InvalidateIncoming([h EXCEPT !.obj[s].isValid = FALSE,
                                          !.ev = @ \cup {<<"invalid", s>>} \cup
                                                (IF h.obj[s].incoming[TRUE] # Null
                                                 THEN {<<"cascade", s>>} ELSE {})],
                                s, TRUE)
        ELSE h,
        LAMBDA h1 :
            IF h1.pc # "idle" THEN h1
            ELSE DropLoop([h1 EXCEPT !.obj[s].dependencies = Null],
                          h1.obj[s].dependencies))

\* Object::leftRotate
LeftRotate(h, s, x) ==
    LET o == h.dep[x].right
        h1 == IF o # Null
              THEN LET ol == h.dep[o].left
                       d1 == [h.dep EXCEPT ![x].right = ol]
                       d2 == IF ol # Null THEN [d1 EXCEPT ![ol].parent = x] ELSE d1
                   IN  [h EXCEPT !.dep = [d2 EXCEPT ![o].parent = h.dep[x].parent]]
              ELSE h
        p == h1.dep[x].parent
        h2 == IF p = Null THEN [h1 EXCEPT !.obj[s].dependencies = o]
              ELSE IF x = h1.dep[p].left THEN [h1 EXCEPT !.dep[p].left = o]
              ELSE [h1 EXCEPT !.dep[p].right = o]
        h3 == IF o # Null THEN [h2 EXCEPT !.dep[o].left = x] ELSE h2
    IN  [h3 EXCEPT !.dep[x].parent = o]

\* Mutant: the moved subtree is not told its new parent
\* (`if (o->right) o->right->parent = dep;` is missing).
RightRotateKeepsParent(h, s, x) ==
    LET o == h.dep[x].left
        h1 == IF o # Null
              THEN [h EXCEPT !.dep = [h.dep EXCEPT ![x].left = h.dep[o].right,
                                                   ![o].parent = h.dep[x].parent]]
              ELSE h
        p == h1.dep[x].parent
        h2 == IF p = Null THEN [h1 EXCEPT !.obj[s].dependencies = o]
              ELSE IF x = h1.dep[p].left THEN [h1 EXCEPT !.dep[p].left = o]
              ELSE [h1 EXCEPT !.dep[p].right = o]
        h3 == IF o # Null THEN [h2 EXCEPT !.dep[o].right = x] ELSE h2
    IN  [h3 EXCEPT !.dep[x].parent = o]

\* Object::rightRotate
RightRotate(h, s, x) ==
    LET o == h.dep[x].left
        h1 == IF o # Null
              THEN LET or == h.dep[o].right
                       d1 == [h.dep EXCEPT ![x].left = or]
                       d2 == IF or # Null THEN [d1 EXCEPT ![or].parent = x] ELSE d1
                   IN  [h EXCEPT !.dep = [d2 EXCEPT ![o].parent = h.dep[x].parent]]
              ELSE h
        p == h1.dep[x].parent
        h2 == IF p = Null THEN [h1 EXCEPT !.obj[s].dependencies = o]
              ELSE IF x = h1.dep[p].left THEN [h1 EXCEPT !.dep[p].left = o]
              ELSE [h1 EXCEPT !.dep[p].right = o]
        h3 == IF o # Null THEN [h2 EXCEPT !.dep[o].right = x] ELSE h2
    IN  [h3 EXCEPT !.dep[x].parent = o]

\* Object::splay
RECURSIVE Splay(_, _, _)
Splay(h, s, x) ==
    LET p == h.dep[x].parent
        g == h.dep[p].parent
    IN  IF p = Null THEN h
        ELSE IF g = Null
        THEN IF h.dep[p].left = x
             THEN Splay(RightRotate(h, s, p), s, x)
             ELSE Splay(LeftRotate(h, s, p), s, x)
        ELSE IF h.dep[p].left = x /\ h.dep[g].left = p
        THEN LET h1 == RightRotate(h, s, g)
             IN  Splay(RightRotate(h1, s, h1.dep[x].parent), s, x)
        ELSE IF h.dep[p].right = x /\ h.dep[g].right = p
        THEN LET h1 == LeftRotate(h, s, g)
             IN  Splay(LeftRotate(h1, s, h1.dep[x].parent), s, x)
        ELSE IF h.dep[p].left = x /\ h.dep[g].right = p
        THEN LET h1 == RightRotate(h, s, p)
             IN  Splay(LeftRotate(h1, s, h1.dep[x].parent), s, x)
        ELSE LET h1 == LeftRotate(h, s, p)
             IN  Splay(RightRotate(h1, s, h1.dep[x].parent), s, x)

\* Object::addDependency, the branch taken where the search loop compares
\* target with iter->B and they differ: the next value of iter.  Both
\* branches of the source are empty, iter stays where it is.
SearchDescend(h, iter, target) ==
    IF target < h.dep[iter].B THEN iter
    ELSE iter

\* Object::addDependency, the loop "Check if it already exists".  With iter
\* and parent both unchanged by an iteration the loop never ends.
RECURSIVE Search(_, _, _, _)
Search(h, iter, parent, target) ==
    IF iter = Null THEN [hit |-> Null, parent |-> parent, loops |-> FALSE]
    ELSE IF target < h.dep[iter].B \/ target > h.dep[iter].B
    THEN LET n == SearchDescend(h, iter, target)
         IN  IF n = iter /\ parent = iter
             THEN [hit |-> Null, parent |-> iter, loops |-> TRUE]
             ELSE Search(h, n, iter, target)
    ELSE [hit |-> iter, parent |-> iter, loops |-> FALSE]

\* content > iter->content
NeedsUpgrade(content, have) == content /\ ~have

\* Mutant: the kind is set without moving the record to the other list.
UpgradeFlagOnly(h, iter, content) ==
    IF NeedsUpgrade(content, h.dep[iter].content)
    THEN [h EXCEPT !.dep[iter].content = TRUE, !.ev = @ \cup {<<"upgrade", iter>>}]
    ELSE h

\* Mutant: the kind of the call replaces the kind of the record (!= for >).
UpgradeOrDowngrade(h, iter, content) ==
    IF content # h.dep[iter].content
    THEN DepLink([DepUnlink(h, iter) EXCEPT !.dep[iter].content = content], iter)
    ELSE h

\* Object::addDependency, "Existing dependency found, upgrade if needed".
Upgrade(h, iter, content) ==
    IF NeedsUpgrade(content, h.dep[iter].content)
    THEN DepLink([DepUnlink(h, iter) EXCEPT !.dep[iter].content = TRUE,
                                            !.ev = @ \cup {<<"upgrade", iter>>}], iter)
    ELSE h

\* The record operator new returns: one that is not allocated.
FreshDep(h) == CHOOSE d \in DepId \ h.alloc : \A e \in DepId \ h.alloc : d <= e

\* Mutant: the new record is not made the root of an empty tree.
CreateDepUnrooted(h, s, parent, target, content) ==
    LET d == FreshDep(h)
        rec == [NewDependency EXCEPT !.A = s, !.B = target, !.content = content,
                                     !.parent = parent]
        h1 == [h EXCEPT !.alloc = h.alloc \cup {d}, !.dep[d] = rec]
        h2 == IF parent = Null THEN h1
              ELSE IF target < h1.dep[parent].B THEN [h1 EXCEPT !.dep[parent].left = d]
              ELSE [h1 EXCEPT !.dep[parent].right = d]
    IN  Splay(DepLink(h2, d), s, d)

\* Object::addDependency, "Create a new dependency".
CreateDep(h, s, parent, target, content) ==
    LET d == FreshDep(h)
        rec == [NewDependency EXCEPT !.A = s, !.B = target, !.content = content,
                                     !.parent = parent]
        h1 == [h EXCEPT !.alloc = h.alloc \cup {d}, !.dep[d] = rec]
        h2 == IF parent = Null THEN [h1 EXCEPT !.obj[s].dependencies = d]
              ELSE IF target < h1.dep[parent].B THEN [h1 EXCEPT !.dep[parent].left = d]
              ELSE [h1 EXCEPT !.dep[parent].right = d]
    IN  Splay(DepLink(h2, d), s, d)

\* Mutant: the search never finds the record, every call makes a new one.
ObjAddDependencyNoSearch(h, s, target, content) ==
    IF h.alloc = DepId THEN h
    ELSE CreateDep(h, s, h.obj[s].dependencies, target, content)

\* Object::addDependency
ObjAddDependency(h, s, target, content) ==
    Let(Search(h, h.obj[s].dependencies, Null, target), LAMBDA r :
        IF r.loops THEN [h EXCEPT !.pc = "addDependency"]
        ELSE IF r.hit # Null THEN Splay(Upgrade(h, r.hit, content), s, r.hit)
        ELSE CreateDep(h, s, r.parent, target, content))

\* Whether Object::addDependency gets the memory it asks for: it allocates
\* only when the search ends without a hit.
HasMemory(h, s, target) ==
    LET r == Search(h, h.obj[s].dependencies, Null, target)
    IN  r.loops \/ r.hit # Null \/ h.alloc # DepId

\* The freed memory that some Dependency still points to.
StaleSlots(h) ==
    {z \in Slot \ Addr : \E d \in h.alloc : h.dep[d].A = z \/ h.dep[d].B = z}

\* The pointers to memory `from` as pointers to memory `to`.
Retarget(dp, from, to) ==
    [d \in DepId |-> [dp[d] EXCEPT !.A = IF @ = from THEN to ELSE @,
                                    !.B = IF @ = from THEN to ELSE @]]

\* lookup[X]: the record of X, inserted when there is none.  The allocator
\* returns memory nothing points to (m = Null), or the freed memory m that
\* dangling pointers still lead to; Object() initialises it either way.
LookupOrCreate(h, x, m) ==
    IF h.lookup[x] # Null THEN h
    ELSE IF m = Null THEN [h EXCEPT !.lookup[x] = x, !.obj[x] = NewObject]
    ELSE [h EXCEPT !.lookup[x] = x, !.obj[x] = NewObject, !.obj[m] = NewObject,
                   !.dep = Retarget(h.dep, m, x)]

\* The memory the allocator may return for the node of lookup[X].
MemoryFor(h, x) == IF h.lookup[x] # Null THEN {Null} ELSE {Null} \cup StaleSlots(h)

\* lookup.erase(iter): the record's memory is freed and left as it is.  It
\* is named z from now on when a Dependency still points to it.
Erase(h, b) ==
    LET s == h.lookup[b]
        z == CHOOSE t \in (Slot \ Addr) \ StaleSlots(h) :
                 \A u \in (Slot \ Addr) \ StaleSlots(h) : t <= u
    IN  IF \E d \in h.alloc : h.dep[d].A = s \/ h.dep[d].B = s
        THEN [h EXCEPT !.lookup[b] = Null, !.obj[z] = h.obj[s], !.obj[s] = NewObject,
                       !.dep = Retarget(h.dep, s, z)]
        ELSE [h EXCEPT !.lookup[b] = Null, !.obj[s] = NewObject]

\* Freed memory that no pointer leads to can no longer be read; it is kept
\* as Object() leaves it, as it will be when it is handed out again.
Scrub(h) ==
    [h EXCEPT !.obj = [s \in Slot |->
        IF s \in (Slot \ LiveSlots(h)) \ StaleSlots(h) THEN NewObject ELSE h.obj[s]]]

\* The engine's memory after a call, the call and what the handler was given.
Commit(h, op, a, b, rep) ==
    \E c \in {Scrub(h)} :
        /\ lookup' = c.lookup
        /\ objects' = c.obj
        /\ deps' = c.dep
        /\ allocated' = c.alloc
        /\ events' = c.ev
        /\ pc' = c.pc
        /\ last' = [op |-> op, a |-> a, b |-> b]
        /\ reports' = rep
        /\ UNCHANGED <<initialized, strings>>

Init ==
    /\ initialized = TRUE
    /\ lookup = [a \in Addr |-> Null]
    /\ objects = [s \in Slot |-> NewObject]
    /\ deps = [d \in DepId |-> NewDependency]
    /\ allocated = {}
    /\ events = {}
    /\ pc = "idle"
    /\ last = [op |-> "none", a |-> Null, b |-> Null]
    /\ reports = << >>
    /\ calls = 0
    /\ strings = << >>

\* Mutant: the test of isValid is inverted.
ValidateReportsValid(h, a) ==
    IF h.lookup[a] # Null /\ h.obj[h.lookup[a]].isValid THEN <<a>> ELSE << >>

\* MemorySafety::validate: what the handler is given.
ValidateReports(h, a) ==
    IF h.lookup[a] # Null /\ ~h.obj[h.lookup[a]].isValid THEN <<a>> ELSE << >>

\* Mutant: a reported violation is cleared, each is reported once.
ValidateClearsFlag(a) ==
    /\ pc = "idle"
    /\ \E h \in {Heap} :
           Commit(IF initialized /\ h.lookup[a] # Null
                  THEN [h EXCEPT !.obj[h.lookup[a]].isValid = TRUE] ELSE h,
                  "validate", a, Null,
                  IF initialized THEN ValidateReports(h, a) ELSE << >>)

\* Mutant: lookup[A] for lookup.find(A), validate makes a record for an unknown A.
ValidateInserts(a) ==
    /\ pc = "idle"
    /\ \E h \in {Heap} :
           Commit(IF initialized THEN LookupOrCreate(h, a, Null) ELSE h,
                  "validate", a, Null,
                  IF initialized THEN ValidateReports(h, a) ELSE << >>)

\* memorysafety::validate
Validate(a) ==
    /\ pc = "idle"
    /\ \E h \in {Heap} :
           Commit(h, "validate", a, Null,
                  IF initialized THEN ValidateReports(h, a) ELSE << >>)

\* Mutant: an invalid B invalidates A as in addContentDependency.
DoAddDependencyChecksB(h, a, b, ma, mb) ==
    Let(LookupOrCreate(h, a, ma), LAMBDA h1 :
        IF ~h1.obj[h1.lookup[a]].isValid THEN h1
        ELSE Let(LookupOrCreate(h1, b, mb), LAMBDA h2 :
                 IF ~h2.obj[h2.lookup[b]].isValid THEN Invalidate(h2, h2.lookup[a])
                 ELSE ObjAddDependency(h2, h2.lookup[a], h2.lookup[b], FALSE)))

\* Mutant: lookup.find(B) for lookup[B], an unknown B gets no record and no edge.
DoAddDependencyNoCreate(h, a, b, ma, mb) ==
    Let(LookupOrCreate(h, a, ma), LAMBDA h1 :
        IF ~h1.obj[h1.lookup[a]].isValid \/ h1.lookup[b] = Null THEN h1
        ELSE ObjAddDependency(h1, h1.lookup[a], h1.lookup[b], FALSE))

\* Mutant: the test "Stop operating in invalid objects" is missing.
DoAddDependencyOnInvalid(h, a, b, ma, mb) ==
    Let(LookupOrCreate(LookupOrCreate(h, a, ma), b, mb), LAMBDA h2 :
        IF HasMemory(h2, h2.lookup[a], h2.lookup[b])
        THEN ObjAddDependency(h2, h2.lookup[a], h2.lookup[b], FALSE)
        ELSE h2)

\* MemorySafety::addDependency
DoAddDependency(h, a, b, ma, mb) ==
    Let(LookupOrCreate(h, a, ma), LAMBDA h1 :
        IF ~h1.obj[h1.lookup[a]].isValid THEN h1
        ELSE Let(LookupOrCreate(h1, b, mb), LAMBDA h2 :
                 ObjAddDependency(h2, h2.lookup[a], h2.lookup[b], FALSE)))

\* Mutant: lookup[B] is taken before A's validity is tested.
DoAddContentDependencyLooksUpBFirst(h, a, b, ma, mb) ==
    Let(LookupOrCreate(LookupOrCreate(h, a, ma), b, mb), LAMBDA h2 :
        IF ~h2.obj[h2.lookup[a]].isValid THEN h2
        ELSE IF ~h2.obj[h2.lookup[b]].isValid THEN Invalidate(h2, h2.lookup[a])
        ELSE ObjAddDependency(h2, h2.lookup[a], h2.lookup[b], TRUE))

\* Mutant: B's validity is not tested.
DoAddContentDependencyIgnoresB(h, a, b, ma, mb) ==
    Let(LookupOrCreate(h, a, ma), LAMBDA h1 :
        IF ~h1.obj[h1.lookup[a]].isValid THEN h1
        ELSE Let(LookupOrCreate(h1, b, mb), LAMBDA h2 :
                 ObjAddDependency(h2, h2.lookup[a], h2.lookup[b], TRUE)))

\* MemorySafety::addContentDependency
DoAddContentDependency(h, a, b, ma, mb) ==
    Let(LookupOrCreate(h, a, ma), LAMBDA h1 :
        IF ~h1.obj[h1.lookup[a]].isValid THEN h1
        ELSE Let(LookupOrCreate(h1, b, mb), LAMBDA h2 :
                 IF ~h2.obj[h2.lookup[b]].isValid THEN Invalidate(h2, h2.lookup[a])
                 ELSE ObjAddDependency(h2, h2.lookup[a], h2.lookup[b], TRUE)))

\* What a call of add(Content)Dependency(a, b) gets from the allocator:
\* memory ma for lookup[A], mb for lookup[B] (not reached from an invalid A)
\* and a Dependency record when Object::addDependency asks for one.
AddEnabled(h, a, b, ma, mb) ==
    /\ ma \in MemoryFor(h, a)
    /\ Let(LookupOrCreate(h, a, ma), LAMBDA h1 :
           IF ~h1.obj[h1.lookup[a]].isValid THEN mb = Null
           ELSE /\ mb \in MemoryFor(h1, b)
                /\ Let(LookupOrCreate(h1, b, mb), LAMBDA h2 :
                       HasMemory(h2, h2.lookup[a], h2.lookup[b])))

\* Mutant: the call does not test isAvailable().
AddDependencyUnguarded(a, b) ==
    /\ pc = "idle"
    /\ \E h \in {Heap} : \E ma, mb \in {Null} \cup StaleSlots(h) :
           /\ AddEnabled(h, a, b, ma, mb)
           /\ Commit(DoAddDependency(h, a, b, ma, mb), "addDependency", a, b, << >>)

\* memorysafety::add_dependency
AddDependency(a, b) ==
    /\ pc = "idle"
    /\ IF initialized
       THEN \E h \in {Heap} : \E ma, mb \in {Null} \cup StaleSlots(h) :
               /\ AddEnabled(h, a, b, ma, mb)
               /\ Commit(DoAddDependency(h, a, b, ma, mb), "addDependency", a, b, << >>)
       ELSE Commit(Heap, "addDependency", a, b, << >>)

\* memorysafety::add_content_dependency
AddContentDependency(a, b) ==
    /\ pc = "idle"
    /\ IF initialized
       THEN \E h \in {Heap} : \E ma, mb \in {Null} \cup StaleSlots(h) :
               /\ AddEnabled(h, a, b, ma, mb)
               /\ Commit(DoAddContentDependency(h, a, b, ma, mb),
                         "addContentDependency", a, b, << >>)
       ELSE Commit(Heap, "addContentDependency", a, b, << >>)

\* Mutant: invalidate() is called for invalidateIncoming(true).
DoMarkModifiedInvalidates(h, b) ==
    IF h.lookup[b] # Null THEN Invalidate(h, h.lookup[b]) ELSE h

\* Mutant: lookup[B] for lookup.find(B), a record is made for an unknown B.
DoMarkModifiedInserts(h, b) ==
    Let(LookupOrCreate(h, b, Null), LAMBDA h1 : InvalidateIncoming(h1, h1.lookup[b], TRUE))

\* MemorySafety::markModified
DoMarkModified(h, b) ==
    IF h.lookup[b] # Null THEN InvalidateIncoming(h, h.lookup[b], TRUE) ELSE h

\* memorysafety::mark_modified
MarkModified(b) ==
    /\ pc = "idle"
    /\ \E h \in {Heap} :
           Commit(IF initialized THEN DoMarkModified(h, b) ELSE h,
                  "markModified", b, Null, << >>)

\* MemorySafety::markDestroyed
DoMarkDestroyed(h, b) ==
    IF h.lookup[b] # Null
    THEN Let(InvalidateIncoming(h, h.lookup[b], FALSE), LAMBDA h1 :
             IF h1.pc # "idle" THEN h1 ELSE Erase(h1, b))
    ELSE h

\* memorysafety::mark_destroyed
MarkDestroyed(b) ==
    /\ pc = "idle"
    /\ \E h \in {Heap} :
           Commit(IF initialized THEN DoMarkDestroyed(h, b) ELSE h,
                  "markDestroyed", b, Null, << >>)

\* Mutant: reset is done by invalidate(), which cascades, and a valid flag.
DoResetViaInvalidate(h, a) ==
    IF h.lookup[a] # Null
    THEN Let(Invalidate(h, h.lookup[a]), LAMBDA h1 :
             [h1 EXCEPT !.obj[h.lookup[a]].isValid = TRUE])
    ELSE h

\* reset(A) (declared in util.hpp; the engine's code for it is not part of
\* the sources): if A is registered, all of A's outgoing edges are dropped,
\* each unlinked from its target's incoming list, and A is valid; A's
\* incoming edges are untouched.
DoReset(h, a) ==
    IF h.lookup[a] # Null
    THEN Let(h.lookup[a], LAMBDA s :
             DropLoop([h EXCEPT !.obj[s].isValid = TRUE, !.obj[s].dependencies = Null],
                      h.obj[s].dependencies))
    ELSE h

\* memorysafety::reset
Reset(a) ==
    /\ pc = "idle"
    /\ \E h \in {Heap} :
           Commit(IF initialized THEN DoReset(h, a) ELSE h, "reset", a, Null, << >>)

\* Mutant: lookup.find(A) for lookup[A], an A without record is left alone.
DoPropagateInvalidFindsA(h, a, b, ma) ==
    IF h.lookup[b] # Null /\ ~h.obj[h.lookup[b]].isValid /\ h.lookup[a] # Null
    THEN Invalidate(h, h.lookup[a])
    ELSE h

\* propagate_invalid(A, B) (declared in util.hpp, code not in the sources):
\* if B is registered and invalid, A is invalidated; A's record is the one
\* of lookup[A], made when there is none.  Otherwise nothing happens.
DoPropagateInvalid(h, a, b, ma) ==
    IF h.lookup[b] # Null /\ ~h.obj[h.lookup[b]].isValid
    THEN Let(LookupOrCreate(h, a, ma), LAMBDA h1 : Invalidate(h1, h1.lookup[a]))
    ELSE h

\* The addresses of the targets of B's outgoing content edges.
ContentTargets(h, b) ==
    {x \in Addr : h.lookup[x] # Null /\
        \E d \in TreeNodes(h.dep, h.obj[h.lookup[b]].dependencies) :
            h.dep[d].content /\ h.dep[d].B = h.lookup[x]}

\* B's content edges are issued again with A as their source, in the order
\* of B's tree (ascending targets).
RECURSIVE Reissue(_, _, _, _)
Reissue(h, a, T, ma) ==
    IF T = {} \/ h.pc # "idle" THEN h
    ELSE Let(CHOOSE x \in T : \A y \in T : x <= y, LAMBDA x :
             Reissue(DoAddContentDependency(h, a, x, ma, Null), a, T \ {x}, ma))

\* Mutant: the flag is passed on, B's content edges are not copied.
DoPropagateContentFlagOnly(h, a, b, ma) ==
    IF h.lookup[b] # Null /\ ~h.obj[h.lookup[b]].isValid
    THEN Let(LookupOrCreate(h, a, ma), LAMBDA h1 : Invalidate(h1, h1.lookup[a]))
    ELSE h

\* propagate_content(A, B) (declared in util.hpp, code not in the sources):
\* as propagate_invalid, and a valid B's outgoing content edges are copied
\* to A.
DoPropagateContent(h, a, b, ma) ==
    IF h.lookup[b] = Null THEN h
    ELSE IF ~h.obj[h.lookup[b]].isValid THEN DoPropagateInvalid(h, a, b, ma)
    ELSE Reissue(h, a, ContentTargets(h, b), ma)

\* What a call of propagate_invalid / propagate_content gets from the
\* allocator: memory ma for lookup[A] when it makes A's record, and a
\* Dependency record for each edge it makes.
PropagateEnabled(h, a, b, ma, content) ==
    IF h.lookup[b] = Null THEN ma = Null
    ELSE IF ~h.obj[h.lookup[b]].isValid THEN ma \in MemoryFor(h, a)
    ELSE IF content /\ ContentTargets(h, b) # {}
    THEN /\ ma \in MemoryFor(h, a)
         /\ Let(LookupOrCreate(h, a, ma), LAMBDA h1 :
                \/ ~h1.obj[h1.lookup[a]].isValid
                \/ \A x \in ContentTargets(h, b) :
                       HasMemory(h1, h1.lookup[a], h1.lookup[x]))
    ELSE ma = Null

\* memorysafety::propagate_invalid
PropagateInvalid(a, b) ==
    /\ pc = "idle"
    /\ IF initialized
       THEN \E h \in {Heap} : \E ma \in {Null} \cup StaleSlots(h) :
               /\ PropagateEnabled(h, a, b, ma, FALSE)
               /\ Commit(DoPropagateInvalid(h, a, b, ma), "propagateInvalid", a, b, << >>)
       ELSE Commit(Heap, "propagateInvalid", a, b, << >>)

\* memorysafety::propagate_content
PropagateContent(a, b) ==
    /\ pc = "idle"
    /\ IF initialized
       THEN \E h \in {Heap} : \E ma \in {Null} \cup StaleSlots(h) :
               /\ PropagateEnabled(h, a, b, ma, TRUE)
               /\ Commit(DoPropagateContent(h, a, b, ma), "propagateContent", a, b, << >>)
       ELSE Commit(Heap, "propagateContent", a, b, << >>)

\* MemorySafety::~MemorySafety, the loop over lookup: every record is
\* invalidated (the outcome does not depend on the order of the map).
RECURSIVE InvalidateAll(_, _)
InvalidateAll(h, S) ==
    IF S = {} \/ h.pc # "idle" THEN h
    ELSE Let(CHOOSE x \in S : \A y \in S : x <= y, LAMBDA x :
             InvalidateAll(Invalidate(h, h.lookup[x]), S \ {x}))

\* MemorySafety::~MemorySafety: the static registry is destroyed at the end
\* of the program; lookup.clear() frees every record.
Destructor ==
    /\ pc = "idle"
    /\ initialized
    /\ \E h \in {InvalidateAll(Heap, {a \in Addr : lookup[a] # Null})} :
          \E c \in {IF h.pc = "idle"
                    THEN [h EXCEPT !.lookup = [a \in Addr |-> Null],
                                   !.obj = [s \in Slot |-> NewObject]]
                    ELSE Scrub(h)} :
             /\ lookup' = c.lookup
             /\ objects' = c.obj
             /\ deps' = c.dep
             /\ allocated' = c.alloc
             /\ events' = c.ev
             /\ pc' = c.pc
             /\ last' = [op |-> "destructor", a |-> Null, b |-> Null]
             /\ reports' = << >>
             /\ initialized' = (c.pc # "idle")
             /\ UNCHANGED strings

\* One more call, of the MaxCalls the program makes.
Counted == calls < MaxCalls /\ calls' = calls + 1

Next ==
    \/ \E a \in Addr : Counted /\ Validate(a)
    \/ \E a, b \in Addr : Counted /\ AddDependency(a, b)
    \/ \E a, b \in Addr : Counted /\ AddContentDependency(a, b)
    \/ \E b \in Addr : Counted /\ MarkModified(b)
    \/ \E b \in Addr : Counted /\ MarkDestroyed(b)

\* The calls of a program that uses the five operations the engine's source
\* file defines: any MaxCalls calls in any order.
Spec == Init /\ [][Next]_vars

\* The calls of a program that uses every operation util.hpp declares and
\* ends (or not) with the destruction of the static registry: any MaxCalls
\* calls in any order.
NextAll ==
    \/ \E a \in Addr : Counted /\ Validate(a)
    \/ \E a, b \in Addr : Counted /\ AddDependency(a, b)
    \/ \E a, b \in Addr : Counted /\ AddContentDependency(a, b)
    \/ \E b \in Addr : Counted /\ MarkModified(b)
    \/ \E b \in Addr : Counted /\ MarkDestroyed(b)
    \/ \E a \in Addr : Counted /\ Reset(a)
    \/ \E a, b \in Addr : Counted /\ PropagateInvalid(a, b)
    \/ \E a, b \in Addr : Counted /\ PropagateContent(a, b)
    \/ Counted /\ Destructor

SpecAll == Init /\ [][NextAll]_vars

(***************************************************************************)
(* Object::splay on its own: every binary search tree of up to MaxNodes    *)
(* Dependency records as the outgoing tree of one Object, every node of it *)
(* splayed.                                                                *)
(***************************************************************************)

\* The Dependency records of such a tree; record d has target d.
TreeId == 1..MaxNodes

\* d is put where a search for its target ends, as a leaf.
RECURSIVE BstInsert(_, _, _)
BstInsert(dp, at, d) ==
    IF dp[d].B < dp[at].B
    THEN IF dp[at].left = Null
         THEN [dp EXCEPT ![at].left = d, ![d].parent = at]
         ELSE BstInsert(dp, dp[at].left, d)
    ELSE IF dp[at].right = Null
         THEN [dp EXCEPT ![at].right = d, ![d].parent = at]
         ELSE BstInsert(dp, dp[at].right, d)

\* The tree that holds the records order[1], order[2], ... put in one after
\* the other, order[1] being the root; all of them belong to the Object in
\* slot 1.
RECURSIVE BuildTree(_, _, _)
BuildTree(dp, order, i) ==
    IF i > Len(order) THEN dp
    ELSE BuildTree(BstInsert(dp, order[1], order[i]), order, i + 1)

\* Every order in which n records can be put in.
Orders(n) == {p \in [1..n -> 1..n] : \A i, j \in 1..n : p[i] = p[j] => i = j}

\* Every binary search tree of 1..MaxNodes records, with its root.
Trees ==
    {[root |-> p[1],
      dep |-> BuildTree([d \in TreeId |->
                            IF d <= Len(p)
                            THEN [NewDependency EXCEPT !.A = 1, !.B = d]
                            ELSE NewDependency], p, 2)] :
        p \in UNION {Orders(n) : n \in 1..MaxNodes}}

\* The number of links from d up to the root.
RECURSIVE Depth(_, _)
Depth(dp, d) == IF dp[d].parent = Null THEN 0 ELSE 1 + Depth(dp, dp[d].parent)

\* Object::splay, the branch its loop takes first for dep.
SplayCase(dp, x) ==
    LET p == dp[x].parent
        g == dp[p].parent
    IN  IF p = Null THEN "root"
        ELSE IF g = Null THEN (IF dp[p].left = x THEN "zig-right" ELSE "zig-left")
        ELSE IF dp[p].left = x /\ dp[g].left = p THEN "zigzig-right"
        ELSE IF dp[p].right = x /\ dp[g].right = p THEN "zigzig-left"
        ELSE IF dp[p].left = x /\ dp[g].right = p THEN "zigzag-right-left"
        ELSE "zigzag-left-right"

InitSplay ==
    /\ initialized = TRUE
    /\ lookup = [a \in Addr |-> IF a = 1 THEN 1 ELSE Null]
    /\ \E t \in Trees :
          /\ objects = [s \in Slot |->
                           IF s = 1 THEN [NewObject EXCEPT !.dependencies = t.root]
                           ELSE NewObject]
          /\ deps = t.dep
          /\ allocated = TreeNodes(t.dep, t.root)
    /\ events = {}
    /\ pc = "idle"
    /\ last = [op |-> "none", a |-> Null, b |-> Null]
    /\ reports = << >>
    /\ calls = 0
    /\ strings = << >>

\* splay(dep) on the tree of the Object in slot 1.
SplayNode(x) ==
    /\ \E h \in {Splay(Heap, 1, x)} :
          /\ objects' = h.obj
          /\ deps' = h.dep
    /\ events' = {<<"case", SplayCase(deps, x)>>, <<"depth", Depth(deps, x)>>}
    /\ last' = [op |-> "splay", a |-> x, b |-> Null]
    /\ UNCHANGED <<initialized, lookup, allocated, pc, reports, calls, strings>>

NextSplay == \E x \in allocated : SplayNode(x)

SpecSplay == InitSplay /\ [][NextSplay]_vars

(***************************************************************************)
(* ms_string (util.hpp): the character buffer _ptr, _size and _capacity of *)
(* two strings, with reserve, erase(index, count) and operator+=, and an   *)
(* iterator of one of them.  A spatial failure ends the program.           *)
(***************************************************************************)

\* The addresses of the two ms_string objects and of the iterator.
StrAddr == {1, 2}
IterAddr == 3

\* What new char[n] returns: n characters of indeterminate value.
NewChars(n) == [i \in 1..n |-> "?"]

\* ms_string(const char* cstr)
StringFrom(cstr) == [ptr |-> cstr, size |-> Len(cstr), capacity |-> Len(cstr)]

\* The C strings the two objects are built from.
Word(s) == IF s = 1 THEN <<"a", "b", "c", "d", "e", "f">> ELSE <<"u", "v", "w", "x", "y", "z">>

\* The characters of the string: _ptr[0] .. _ptr[_size - 1].
Contents(t) == SubSeq(t.ptr, 1, t.size)

\* ms_string::reserve, what it does to the string.
StrReserve(t, nc) ==
    IF nc > t.capacity
    THEN LET nc2 == t.capacity + (t.capacity \div 8)
             n == IF nc2 > nc THEN nc2 ELSE nc
         IN  [ptr |-> [i \in 1..n |-> IF i <= t.size THEN t.ptr[i] ELSE NewChars(n)[i]],
              size |-> t.size, capacity |-> n]
    ELSE t

\* ms_string::erase(index, count), its loop
\*    for (size_type index = 0, limit = ...; index != limit; ++index)
\*       _ptr[index] = _ptr[index + count];
\* (_ptr[k] of the source is ptr[k + 1] here).
RECURSIVE EraseLoop(_, _, _, _)
EraseLoop(ptr, index, limit, count) ==
    IF index = limit THEN ptr
    ELSE EraseLoop([ptr EXCEPT ![index + 1] = ptr[index + count + 1]],
                   index + 1, limit, count)

\* ms_string::erase(index, count), what it does to the string.  The loop
\* declares a second `index`, 0, and its limit is computed from that one:
\* _size - 0 - count.
StrErase(t, index, count) ==
    IF index < t.size
    THEN IF count < t.size - index
         THEN [t EXCEPT !.ptr = EraseLoop(t.ptr, 0, t.size - 0 - count, count),
                        !.size = t.size - count]
         ELSE [t EXCEPT !.size = index]
    ELSE t

\* ms_string::operator+=(const ms_string&), its loop
\*    for (index = 0; index != o._size; ++index) _ptr[_size++] = o._ptr[index];
RECURSIVE AppendLoop(_, _, _)
AppendLoop(t, o, index) ==
    IF index = o.size THEN t
    ELSE AppendLoop([t EXCEPT !.ptr[t.size + 1] = o.ptr[index + 1], !.size = t.size + 1],
                    o, index + 1)

\* ms_string::operator+=, the condition of its second assert_spatial.
AppendFits(t, o) == t.size < t.capacity /\ o.size < t.capacity

\* mark_modified(this) as a string issues it: the engine's call, noted.
StrMarkModified(h, s) ==
    Let(IF initialized THEN DoMarkModified(h, s) ELSE h, LAMBDA h1 :
        [h1 EXCEPT !.ev = @ \cup {<<"markModified", s>>}])

\* assert_spatial(false): assert_spatial_failed() ends the program.
SpatialFailed(h) == [h EXCEPT !.ev = @ \cup {<<"spatial">>}, !.pc = "terminated"]

\* The engine's memory and the strings after a call of a string's member.
StringCommit(h, op, a, b, strs) ==
    \E c \in {Scrub(h)} :
        /\ lookup' = c.lookup
        /\ objects' = c.obj
        /\ deps' = c.dep
        /\ allocated' = c.alloc
        /\ events' = c.ev
        /\ pc' = c.pc
        /\ last' = [op |-> op, a |-> a, b |-> b]
        /\ reports' = << >>
        /\ strings' = strs
        /\ UNCHANGED initialized

InitString ==
    /\ initialized = TRUE
    /\ lookup = [a \in Addr |-> Null]
    /\ objects = [s \in Slot |-> NewObject]
    /\ deps = [d \in DepId |-> NewDependency]
    /\ allocated = {}
    /\ events = {}
    /\ pc = "idle"
    /\ last = [op |-> "none", a |-> Null, b |-> Null]
    /\ reports = << >>
    /\ calls = 0
    /\ \E n1, n2 \in 0..MaxLen :
          strings = [s \in StrAddr |->
                        StringFrom(SubSeq(Word(s), 1, IF s = 1 THEN n1 ELSE n2))]

\* ms_string::reserve(nc)
StringReserve(s, nc) ==
    /\ pc = "idle"
    /\ StringCommit(StrMarkModified(Heap, s), "reserve", s, nc,
                    [strings EXCEPT ![s] = StrReserve(@, nc)])

\* ms_string::erase(index, count)
StringErase(s, index, count) ==
    /\ pc = "idle"
    /\ StringCommit(StrMarkModified(Heap, s), "erase", s, <<index, count>>,
                    [strings EXCEPT ![s] = StrErase(@, index, count)])

\* ms_string::operator+=(const ms_string& o), this = s
StringAppend(s, o) ==
    /\ pc = "idle"
    /\ strings[s].size + strings[o].size <= MaxLen
    /\ IF s = o THEN StringCommit(SpatialFailed(Heap), "append", s, o, strings)
       ELSE \E t \in {StrReserve(strings[s], strings[s].size + strings[o].size)} :
               IF AppendFits(t, strings[o])
               THEN StringCommit(StrMarkModified(Heap, s), "append", s, o,
                                 [strings EXCEPT ![s] = AppendLoop(t, strings[o], 0)])
               ELSE StringCommit(SpatialFailed(StrMarkModified(Heap, s)), "append", s, o,
                                 [strings EXCEPT ![s] = t])

\* The calls of a program with two strings: s.begin() (the iterator's
\* constructor registers it on the string's content), validate(&iter) (the
\* first statement of every member that takes an iterator), and the members
\* of the strings, with every argument: any MaxStringCalls calls.
\* A call of the program with the two strings, counted.
StringCounted == calls < MaxStringCalls /\ calls' = calls + 1

NextString ==
    \/ StringCounted /\ \E s \in StrAddr : AddContentDependency(IterAddr, s)
    \/ StringCounted /\ Validate(IterAddr)
    \/ StringCounted /\ \E s \in StrAddr : \E nc \in 0..(MaxLen + 1) : StringReserve(s, nc)
    \/ StringCounted /\ \E s \in StrAddr : \E index, count \in 0..(MaxLen + 1) :
                      StringErase(s, index, count)
    \/ StringCounted /\ \E s, o \in StrAddr : StringAppend(s, o)

SpecString == InitString /\ [][NextString]_vars

(***************************************************************************)
(* The registry as the claims speak of it.                                 *)
(***************************************************************************)

\* lookup.find(A) != lookup.end()
Registered(a) == lookup[a] # Null

\* A is registered and its isValid is true / false.
Valid(a) == Registered(a) /\ objects[lookup[a]].isValid
Invalid(a) == Registered(a) /\ ~objects[lookup[a]].isValid

\* The Dependency records of A's outgoing tree.
OutDeps(a) == IF Registered(a) THEN TreeNodes(deps, objects[lookup[a]].dependencies) ELSE {}

\* A's outgoing tree: its root and its nodes with their target, kind and links.
OutTree(a) ==
    [root |-> IF Registered(a) THEN objects[lookup[a]].dependencies ELSE Null,
     nodes |-> {<<d, deps[d].B, deps[d].content, deps[d].parent, deps[d].left,
                  deps[d].right>> : d \in OutDeps(a)}]

\* The records of A's tree that point to B's record.
EdgesTo(a, b) == IF Registered(b) THEN {d \in OutDeps(a) : deps[d].B = lookup[b]} ELSE {}

\* A holds an edge to B of kind c (TRUE: content) / of either kind.
Edge(a, b, c) == \E d \in EdgesTo(a, b) : deps[d].content = c
EdgeAny(a, b) == EdgesTo(a, b) # {}

\* B's incoming list of kind c.
Incoming(b, c) == IF Registered(b) THEN ListNodes(deps, objects[lookup[b]].incoming[c]) ELSE {}

\* The objects from which a non-empty path of content edges / of edges of
\* either kind leads to B.
\* The sources of the edges of E that lead into S.
Sources(E, S) == {e[1] : e \in {f \in E : f[2] \in S}}

RECURSIVE Ancestors(_, _, _)
Ancestors(E, S, n) ==
    IF n = 0 THEN S
    ELSE Let(S \cup Sources(E, S), LAMBDA T : Ancestors(E, T, n - 1))

ContentAncestors(b) ==
    Let({e \in Addr \X Addr : Edge(e[1], e[2], TRUE)},
        LAMBDA E : Ancestors(E, Sources(E, {b}), NAddr))
AnyAncestors(b) ==
    Let({e \in Addr \X Addr : EdgeAny(e[1], e[2])},
        LAMBDA E : Ancestors(E, Sources(E, {b}), NAddr))

\* The step is the call op(a, b) / op(a), and the call has returned.
Called(op, a, b) == last' = [op |-> op, a |-> a, b |-> b]
Returned(op, a, b) == Called(op, a, b) /\ pc' = "idle"

(***************************************************************************)
(* C1: add-dependency(A,B) and add-content-dependency(A,B) return from     *)
(* every reachable state: no call stays in the search loop of              *)
(* Object::addDependency.                                                  *)
(***************************************************************************)
C1_AddDependencyReturns ==
    last.op \in {"addDependency", "addContentDependency"} => pc # "addDependency"

(***************************************************************************)
(* C2: if a valid A holds an edge of either kind to B (A # B), then after  *)
(* mark-destroyed(B) has returned A is invalid; an invalid A stays invalid *)
(* until mark-destroyed(A), and validate(A) on it gives the handler A.     *)
(***************************************************************************)
C2_DestroyInvalidatesDependents ==
    [][\A a \in Addr :
        /\ \A b \in Addr \ {a} :
              (Returned("markDestroyed", b, Null) /\ Valid(a) /\ EdgeAny(a, b))
                  => Invalid(a)'
        /\ (Invalid(a) /\ ~Called("markDestroyed", a, Null)) => Invalid(a)'
        /\ (Called("validate", a, Null) /\ Invalid(a)) => reports' = <<a>>]_vars

\* mark-destroyed(B) has returned and has set a record other than B's invalid.
C2_Witness ==
    /\ last.op = "markDestroyed" /\ pc = "idle"
    /\ \E a \in Addr \ {last.a} : Invalid(a) /\ <<"invalid", lookup[a]>> \in events

(***************************************************************************)
(* C3: if a valid A holds a content edge to B, then after mark-modified(B) *)
(* has returned A is invalid, and a validate(A) that follows gives the     *)
(* handler A.                                                              *)
(***************************************************************************)
C3_ModifyInvalidatesContentDependents ==
    [][\A a \in Addr :
        /\ \A b \in Addr :
              (Returned("markModified", b, Null) /\ Valid(a) /\ Edge(a, b, TRUE))
                  => Invalid(a)'
        /\ (Called("validate", a, Null) /\ last.op = "markModified"
              /\ <<"invalid", lookup[a]>> \in events) => reports' = <<a>>]_vars

\* mark-modified(B) has returned and has set some record invalid.
C3_Witness ==
    /\ last.op = "markModified" /\ pc = "idle"
    /\ \E a \in Addr : Invalid(a) /\ <<"invalid", lookup[a]>> \in events

(***************************************************************************)
(* C4: for every chain of content edges from A to B, after                 *)
(* mark-modified(B) or mark-destroyed(B) has returned A is invalid (for    *)
(* A # B after mark-destroyed, which removes B), and a validate(A) that    *)
(* follows gives the handler A.                                            *)
(***************************************************************************)
C4_InvalidationIsTransitive ==
    [][/\ \A b \in Addr :
             Returned("markModified", b, Null)
                 => \A a \in ContentAncestors(b) : Invalid(a)'
       /\ \A b \in Addr :
             Returned("markDestroyed", b, Null)
                 => \A a \in ContentAncestors(b) \ {b} : Invalid(a)'
       /\ \A a \in Addr :
             (Called("validate", a, Null)
                /\ last.op \in {"markModified", "markDestroyed"}
                /\ <<"invalid", lookup[a]>> \in events) => reports' = <<a>>]_vars

\* A cascade has gone through a chain: the call has set a record other
\* than B's invalid, and from that record the invalidation went on to a
\* third one along a content edge.
C4_Witness ==
    /\ last.op \in {"markModified", "markDestroyed"} /\ pc = "idle"
    /\ \E a, c \in Addr :
          /\ a # c /\ a # last.a /\ c # last.a
          /\ Invalid(c) /\ Invalid(a)
          /\ {e \in events : e[1] = "invalid"}
                = {<<"invalid", lookup[c]>>, <<"invalid", lookup[a]>>}
          /\ {e \in events : e[1] = "cascade"} = {<<"cascade", lookup[c]>>}

(***************************************************************************)
(* C5, as claimed: mark-modified(B) never changes B's own validity flag or *)
(* B's own outgoing tree, whatever the dependency graph.                   *)
(***************************************************************************)
C5_ModifyKeepsTarget ==
    [][\A b \in Addr :
        (Returned("markModified", b, Null) /\ Registered(b))
            => /\ Registered(b)'
               /\ Valid(b)' = Valid(b)
               /\ OutTree(b)' = OutTree(b)]_vars

(***************************************************************************)
(* C5, amended: mark-modified(B) changes neither B's validity flag nor B's *)
(* outgoing tree when no non-empty path of content edges leads from B back *)
(* to B.                                                                   *)
(***************************************************************************)
C5_ModifyKeepsTargetOffCycles ==
    [][\A b \in Addr :
        (Returned("markModified", b, Null) /\ Registered(b) /\ b \notin ContentAncestors(b))
            => /\ Registered(b)'
               /\ Valid(b)' = Valid(b)
               /\ OutTree(b)' = OutTree(b)]_vars

\* mark-modified(B) has invalidated a dependent of B, and B is valid and
\* holds an edge.
C5_Witness ==
    /\ last.op = "markModified" /\ pc = "idle"
    /\ Valid(last.a) /\ OutDeps(last.a) # {}
    /\ \E a \in Addr : <<"invalid", lookup[a]>> \in events

(***************************************************************************)
(* C6: mark-modified(B) leaves every record from which no non-empty path   *)
(* of content edges leads to B as it is: registered, with its validity     *)
(* flag and its outgoing tree.                                             *)
(***************************************************************************)
C6_ModifyTouchesContentAncestorsOnly ==
    [][\A b \in Addr :
        Returned("markModified", b, Null)
            => \A a \in Addr \ ContentAncestors(b) :
                  Registered(a) => /\ Registered(a)'
                                   /\ Valid(a)' = Valid(a)
                                   /\ OutTree(a)' = OutTree(a)]_vars

\* mark-modified(B) has invalidated a content dependent of B while another
\* object holds an existence edge to B, and is valid.
C6_Witness ==
    /\ last.op = "markModified" /\ pc = "idle"
    /\ \E a, c \in Addr :
          /\ Valid(a) /\ Edge(a, last.a, FALSE)
          /\ Invalid(c) /\ <<"invalid", lookup[c]>> \in events

(***************************************************************************)
(* C7: validate(A) changes nothing in the registry and gives the handler A *)
(* once when A is registered and invalid, and nothing otherwise; no other  *)
(* call invokes the handler.                                               *)
(***************************************************************************)
C7_HandlerOnlyOnInvalidValidate ==
    [][/\ \A a \in Addr : Called("validate", a, Null) =>
             /\ UNCHANGED <<initialized, lookup, objects, deps, allocated, pc>>
             /\ reports' = IF Invalid(a) THEN <<a>> ELSE << >>
       /\ last'.op # "validate" => reports' = << >>]_vars

\* validate(A) has reported A.
C7_Witness == last.op = "validate" /\ reports = <<last.a>> /\ Invalid(last.a)

C9_UpgradeInPlace ==
    [][\A a, b \in Addr :
        /\ (Called("addContentDependency", a, b) /\ Valid(a) /\ Valid(b) /\ Edge(a, b, FALSE))
              => /\ pc' = "idle"
                 /\ EdgesTo(a, b)' = EdgesTo(a, b)
                 /\ Cardinality(EdgesTo(a, b)') = 1
                 /\ \A d \in EdgesTo(a, b)' :
                       /\ deps'[d].content
                       /\ d \in Incoming(b, TRUE)'
                       /\ d \notin Incoming(b, FALSE)'
        /\ (Returned("markModified", b, Null)
              /\ last = [op |-> "addContentDependency", a |-> a, b |-> b]
              /\ \E d \in EdgesTo(a, b) : <<"upgrade", d>> \in events) => Invalid(a)']_vars

\* add-content-dependency(A,B) has upgraded the edge A->B.
C9_Witness ==
    /\ last.op = "addContentDependency" /\ pc = "idle"
    /\ \E d \in EdgesTo(last.a, last.b) : deps[d].content /\ <<"upgrade", d>> \in events

(***************************************************************************)
(* C10: a Dependency record of kind content is of kind content for as long *)
(* as it exists; add-dependency(A,B) on a content edge A->B leaves it      *)
(* content and on B's content-incoming list.                               *)
(***************************************************************************)
C10_KindIsMonotone ==
    [][/\ \A d \in allocated \cap allocated' : deps[d].content => deps'[d].content
       /\ \A a, b \in Addr :
             (Called("addDependency", a, b) /\ Edge(a, b, TRUE))
                 => /\ pc' = "idle"
                    /\ EdgesTo(a, b)' = EdgesTo(a, b)
                    /\ \A d \in EdgesTo(a, b)' :
                          deps'[d].content /\ d \in Incoming(b, TRUE)']_vars

\* add-dependency(A,B) has returned and A holds a content edge to B.
C10_Witness ==
    /\ last.op = "addDependency" /\ pc = "idle"
    /\ Edge(last.a, last.b, TRUE)

\* The engine's memory: everything but the record of the last call.
registry == <<initialized, lookup, objects, deps, allocated, pc>>

(***************************************************************************)
(* C11: add-dependency(A,B) called directly after add-dependency(A,B) has  *)
(* returned leaves the registry, the records, their flags, trees and lists *)
(* as the first call left them; the same for add-content-dependency(A,B).  *)
(***************************************************************************)
C11_AddIsIdempotent ==
    [][\A a, b \in Addr : \A op \in {"addDependency", "addContentDependency"} :
          (Called(op, a, b) /\ last = [op |-> op, a |-> a, b |-> b] /\ pc = "idle")
              => UNCHANGED registry]_vars

\* add(-content)-dependency(A,B) has returned and A holds the edge to B: the
\* state a first and a second call end in.
C11_Witness ==
    /\ last.op \in {"addDependency", "addContentDependency"} /\ pc = "idle"
    /\ Valid(last.a) /\ EdgeAny(last.a, last.b) /\ events = {}

(***************************************************************************)
(* C12: mark-destroyed(B) directly after a mark-destroyed(B) that has      *)
(* returned changes nothing, and mark-destroyed(B) and mark-modified(B) of *)
(* an address that is not registered change nothing and make no record.    *)
(***************************************************************************)
C12_DestroyIsIdempotent ==
    [][\A b \in Addr :
        /\ (Called("markDestroyed", b, Null)
              /\ last = [op |-> "markDestroyed", a |-> b, b |-> Null] /\ pc = "idle")
             => UNCHANGED registry
        /\ ((Called("markDestroyed", b, Null) \/ Called("markModified", b, Null))
              /\ ~Registered(b))
             => UNCHANGED registry]_vars

\* mark-destroyed(B) of an unregistered B has returned without invalidating
\* anything, in a registry where an earlier call has invalidated a record.
C12_Witness ==
    /\ last.op = "markDestroyed" /\ pc = "idle" /\ events = {}
    /\ ~Registered(last.a)
    /\ \E a \in Addr : Invalid(a)

(***************************************************************************)
(* C13, as claimed: the add-dependency or add-content-dependency call that *)
(* follows mark-destroyed(B) and names B as source or target leaves B      *)
(* without a record (and so without an edge).                              *)
(***************************************************************************)
C13_DestroyedStaysUnregistered ==
    [][\A a, b \in Addr : \A op \in {"addDependency", "addContentDependency"} :
          ((Called(op, a, b) \/ Called(op, b, a))
             /\ last = [op |-> "markDestroyed", a |-> b, b |-> Null] /\ pc = "idle")
              => ~Registered(b)']_vars

(***************************************************************************)
(* C13, amended: an add-dependency or add-content-dependency call that     *)
(* names an unregistered address (destroyed, or never registered) makes a  *)
(* new record for it.  As the target B of a source that is not invalid, B  *)
(* is valid, has no outgoing edge, and the edge from A is the one record   *)
(* on its incoming lists.  As the source A, A's tree holds the edge to B   *)
(* and nothing else, and A is valid unless the call is of content kind and *)
(* B is invalid.                                                           *)
(***************************************************************************)
C13_UnregisteredIsCreatedAnew ==
    [][\A a, b \in Addr : \A k \in BOOLEAN :
          (Called(IF k THEN "addContentDependency" ELSE "addDependency", a, b)
             /\ pc' = "idle")
              => /\ (~Registered(b) /\ a # b /\ ~Invalid(a))
                      => /\ Valid(b)' /\ OutDeps(b)' = {}
                         /\ Cardinality(EdgesTo(a, b)') = 1
                         /\ Incoming(b, k)' = EdgesTo(a, b)'
                         /\ Incoming(b, ~k)' = {}
                 /\ ~Registered(a)
                      => /\ Registered(a)'
                         /\ OutDeps(a)' = EdgesTo(a, b)'
                         /\ (Incoming(a, TRUE) \cup Incoming(a, FALSE))' \subseteq EdgesTo(a, a)'
                         /\ Valid(a)' = ~(k /\ Invalid(b))
                         /\ Valid(a)' => Cardinality(EdgesTo(a, b)') = 1]_vars

\* An add call has made a record for its target B and the edge to it, in a
\* registry where a mark-destroyed has invalidated a record before.
C13_Witness ==
    /\ last.op \in {"addDependency", "addContentDependency"} /\ pc = "idle"
    /\ last.a # last.b /\ Valid(last.a) /\ Valid(last.b)
    /\ OutDeps(last.b) = {}
    /\ Incoming(last.b, TRUE) \cup Incoming(last.b, FALSE) = EdgesTo(last.a, last.b)
    /\ EdgesTo(last.a, last.b) # {}
    /\ \E c \in Addr \ {last.a, last.b} : Invalid(c) /\ OutDeps(c) = {}

(***************************************************************************)
(* C14: add-dependency(A,B) and add-content-dependency(A,B) with A         *)
(* registered and invalid change nothing: no edge, no record for B, A      *)
(* invalid as before.                                                      *)
(***************************************************************************)
C14_InvalidSourceAddsNothing ==
    [][\A a, b \in Addr : \A op \in {"addDependency", "addContentDependency"} :
          (Called(op, a, b) /\ Invalid(a)) => UNCHANGED registry]_vars

\* An add call with an invalid source and an unregistered target has
\* returned.
C14_Witness ==
    /\ last.op \in {"addDependency", "addContentDependency"} /\ pc = "idle"
    /\ Invalid(last.a) /\ ~Registered(last.b) /\ events = {}

(***************************************************************************)
(* C15: add-content-dependency(A,B) with A not invalid and B registered    *)
(* and invalid makes A invalid, deletes every record of A's outgoing tree, *)
(* leaving none of them on an incoming list, and makes no edge A->B;       *)
(* add-dependency(A,B) in that situation leaves A valid (with the edge).   *)
(***************************************************************************)
C15_InvalidTargetInvalidatesContentSource ==
    [][\A a, b \in Addr :
        /\ (Called("addContentDependency", a, b) /\ pc' = "idle"
              /\ ~Invalid(a) /\ Invalid(b))
             => /\ Invalid(a)'
                /\ OutDeps(a)' = {} /\ EdgesTo(a, b)' = {}
                /\ OutDeps(a) \cap allocated' = {}
                /\ \A x \in Addr : \A c \in BOOLEAN : Incoming(x, c)' \cap OutDeps(a) = {}
        /\ (Called("addDependency", a, b) /\ pc' = "idle"
              /\ ~Invalid(a) /\ Invalid(b))
             => Valid(a)' /\ Edge(a, b, FALSE)']_vars

\* add-content-dependency(A,B) with an invalid B has invalidated A.
C15_Witness ==
    /\ last.op = "addContentDependency" /\ pc = "idle"
    /\ last.a # last.b /\ Invalid(last.b)
    /\ Invalid(last.a) /\ <<"invalid", lookup[last.a]>> \in events
    /\ OutDeps(last.a) = {}

(***************************************************************************)
(* C16: while initialized is false, validate, add_dependency,              *)
(* add_content_dependency, mark_modified and mark_destroyed (and reset,    *)
(* propagate_invalid, propagate_content) change nothing and do not invoke  *)
(* the violation handler.                                                  *)
(***************************************************************************)
C16_NothingWithoutRegistry ==
    [][~initialized => (UNCHANGED registry /\ reports' = << >>)]_vars

\* One of the five operations has been called after the registry's
\* destruction.
C16_Witness ==
    /\ ~initialized
    /\ last.op \in {"validate", "addDependency", "addContentDependency",
                    "markModified", "markDestroyed"}

(***************************************************************************)
(* C17: an invalid A stays invalid through every call but reset(A) and     *)
(* mark-destroyed(A), whatever the call and its arguments, and every       *)
(* validate(A) on it gives the handler A.                                  *)
(***************************************************************************)
C17_InvalidIsSticky ==
    [][\A a \in Addr :
        Invalid(a) =>
           /\ (last'.op # "destructor" /\ ~Called("reset", a, Null)
                 /\ ~Called("markDestroyed", a, Null)) => Invalid(a)'
           /\ Called("validate", a, Null) => reports' = <<a>>]_vars

\* A call other than reset and mark-destroyed has been made on an invalid A
\* and has returned; A is invalid still.
C17_Witness ==
    /\ last.op \in {"addDependency", "addContentDependency", "markModified",
                    "propagateInvalid", "propagateContent"}
    /\ pc = "idle" /\ events = {}
    /\ Invalid(last.a)

(***************************************************************************)
(* C18: reset(A) on a registered A deletes every record of A's outgoing    *)
(* tree, taking each off its target's incoming list, makes A valid and     *)
(* changes nothing else: the incoming lists keep every other record, the   *)
(* other objects their validity.  A validate(A) directly after it reports  *)
(* nothing.  reset of an unregistered address changes nothing.             *)
(***************************************************************************)
C18_ResetClears ==
    [][\A a \in Addr :
        /\ (Called("reset", a, Null) /\ initialized /\ Registered(a))
             => /\ pc' = "idle" /\ Valid(a)'
                /\ OutDeps(a)' = {} /\ OutDeps(a) \cap allocated' = {}
                /\ \A x \in Addr : \A c \in BOOLEAN :
                      Incoming(x, c)' = Incoming(x, c) \ OutDeps(a)
                /\ \A x \in Addr \ {a} :
                      /\ Registered(x)' = Registered(x) /\ Valid(x)' = Valid(x)
                      /\ OutTree(x)' = OutTree(x)
        /\ (Called("reset", a, Null) /\ ~Registered(a)) => UNCHANGED registry
        /\ (Called("validate", a, Null)
              /\ last = [op |-> "reset", a |-> a, b |-> Null]) => reports' = << >>]_vars

\* reset(A) has returned: A is valid, holds no edge, and is the target of an
\* edge still, while another record is invalid.
C18_Witness ==
    /\ last.op = "reset" /\ pc = "idle" /\ initialized
    /\ Valid(last.a) /\ OutDeps(last.a) = {}
    /\ Incoming(last.a, TRUE) \cup Incoming(last.a, FALSE) # {}
    /\ \E x \in Addr : Invalid(x)

(***************************************************************************)
(* C19: propagate-invalid(A,B) with B registered and invalid makes A       *)
(* invalid, and a validate(A) that follows gives the handler A; with B     *)
(* unregistered or valid it changes nothing.                               *)
(***************************************************************************)
C19_PropagateInvalid ==
    [][\A a, b \in Addr :
        /\ (Called("propagateInvalid", a, b) /\ pc' = "idle" /\ initialized /\ Invalid(b))
             => Invalid(a)'
        /\ (Called("propagateInvalid", a, b) /\ ~Invalid(b)) => UNCHANGED registry
        /\ (Called("validate", a, Null)
              /\ last = [op |-> "propagateInvalid", a |-> a, b |-> b]
              /\ <<"invalid", lookup[a]>> \in events) => reports' = <<a>>]_vars

\* propagate-invalid(A,B) has made A invalid after B.
C19_Witness ==
    /\ last.op = "propagateInvalid" /\ pc = "idle"
    /\ last.a # last.b /\ Invalid(last.b)
    /\ Invalid(last.a) /\ <<"invalid", lookup[last.a]>> \in events

C21_ReuseIsNotConfused ==
    [][\A x \in Addr :
        (Called("markModified", x, Null) \/ Called("markDestroyed", x, Null))
            => \A a \in Addr \ {x} :
                  (Valid(a) /\ a \notin AnyAncestors(x))
                      => /\ objects'[lookup[a]].isValid
                         /\ <<"uaf", lookup[a]>> \notin events']_vars

(***************************************************************************)
(* C22: when mark-destroyed(B) has returned, no Dependency record that had *)
(* B as its source (the records of B's outgoing tree) or as its target     *)
(* (the records of B's two incoming lists) is allocated any more.          *)
(***************************************************************************)
C22_DestroyReleasesEdges ==
    [][\A b \in Addr :
        Returned("markDestroyed", b, Null)
            => (OutDeps(b) \cup Incoming(b, TRUE) \cup Incoming(b, FALSE))
                  \cap allocated' = {}]_vars

(***************************************************************************)
(* C23: between calls every allocated Dependency record is in the outgoing *)
(* tree of exactly one registered record, the one its A points to, and on  *)
(* exactly one incoming list, the one of its kind of the registered record *)
(* its B points to; so no incoming list holds a record whose source is not *)
(* in the registry.                                                        *)
(***************************************************************************)
C23_EdgeInOneTreeAndOneList ==
    pc = "idle" =>
        \A d \in allocated :
            /\ Cardinality({a \in Addr : d \in OutDeps(a)}) = 1
            /\ \A a \in Addr : d \in OutDeps(a) => deps[d].A = lookup[a]
            /\ Cardinality({e \in Addr \X BOOLEAN : d \in Incoming(e[1], e[2])}) = 1
            /\ \A b \in Addr : \A c \in BOOLEAN :
                  d \in Incoming(b, c) => (deps[d].B = lookup[b] /\ deps[d].content = c)

(***************************************************************************)
(* C24: the destruction of the registry returns from every reachable state *)
(* with no Dependency record allocated, no record in the registry and      *)
(* initialized false, and reaches no record through the pointer of an edge *)
(* whose source record has been removed.                                   *)
(***************************************************************************)
C24_TeardownReleasesAll ==
    [][last'.op = "destructor"
          => /\ pc' = "idle"
             /\ allocated' = {}
             /\ \A a \in Addr : ~Registered(a)'
             /\ ~initialized'
             /\ \A e \in events' : e[1] # "uaf"]_vars

(***************************************************************************)
(* C25: between calls a registered record whose isValid is false has an    *)
(* empty outgoing tree.                                                    *)
(***************************************************************************)
C25_InvalidHoldsNoEdge ==
    pc = "idle" =>
        \A a \in Addr :
            Invalid(a) => (objects[lookup[a]].dependencies = Null /\ OutDeps(a) = {})

\* A mark call has returned and has invalidated a dependent, which held an
\* edge then, while another record holds an edge.
C25_Witness ==
    /\ pc = "idle" /\ last.op \in {"markModified", "markDestroyed"}
    /\ \E a \in Addr : Invalid(a) /\ <<"invalid", lookup[a]>> \in events
    /\ \E c \in Addr : Valid(c) /\ OutDeps(c) # {}

(***************************************************************************)
(* C26: in every reachable state no two allocated Dependency records have  *)
(* the same source record and the same target record.                      *)
(***************************************************************************)
C26_OneEdgePerPair ==
    \A d, e \in allocated :
        (deps[d].A = deps[e].A /\ deps[d].B = deps[e].B) => d = e

C28_MarksReturn ==
    last.op \in {"markModified", "markDestroyed"} => pc = "idle"

(***************************************************************************)
(* C29: when mark-destroyed(B) has returned, the records other than B that *)
(* it has made invalid are exactly the sources of the edges into B, of     *)
(* either kind, and the records from which a path of content edges leads   *)
(* to such a source; every other record is registered, valid and holds its *)
(* edges as before.  A valid record whose one edge is an existence edge to *)
(* X stays valid and keeps the edge through every mark-modified and every  *)
(* mark-destroyed of another address than X, whatever they do to X.        *)
(***************************************************************************)
C29_DestroyInvalidatesExactly ==
    [][/\ \A b \in Addr :
             Returned("markDestroyed", b, Null) =>
                Let(Ancestors({e \in Addr \X Addr : Edge(e[1], e[2], TRUE)},
                              {a \in Addr : EdgeAny(a, b)}, NAddr),
                    LAMBDA S :
                       \A a \in Addr \ {b} :
                          /\ Registered(a)' = Registered(a)
                          /\ Invalid(a)' = (Invalid(a) \/ a \in S)
                          /\ a \notin S => OutTree(a)' = OutTree(a))
       /\ \A y \in Addr :
             (Returned("markModified", y, Null) \/ Returned("markDestroyed", y, Null))
                => \A a, x \in Addr :
                      (/\ Valid(a) /\ Edge(a, x, FALSE) /\ OutDeps(a) = EdgesTo(a, x)
                       /\ ~(last'.op = "markDestroyed" /\ y \in {a, x}))
                          => Valid(a)' /\ Edge(a, x, FALSE)']_vars

\* mark-destroyed(B) has returned and has invalidated X, a source of an edge
\* into B, and A, valid, holds an existence edge to X.
C29_Witness ==
    /\ last.op = "markDestroyed" /\ pc = "idle"
    /\ \E a, x \in Addr \ {last.a} :
          /\ a # x
          /\ Invalid(x) /\ <<"invalid", lookup[x]>> \in events
          /\ Valid(a) /\ Edge(a, x, FALSE)

(***************************************************************************)
(* C30: between calls the content-incoming list of a registered record     *)
(* whose isValid is false is empty: no record holds a content edge to it.  *)
(***************************************************************************)
C30_InvalidHasNoContentDependents ==
    pc = "idle" =>
        \A a \in Addr :
            Invalid(a) => /\ objects[lookup[a]].incoming[TRUE] = Null
                          /\ \A x \in Addr : ~Edge(x, a, TRUE)

\* A call has returned that invalidated A while A's content-incoming list
\* was not empty.
C30_Witness ==
    /\ pc = "idle"
    /\ \E a \in Addr : Invalid(a) /\ <<"cascade", lookup[a]>> \in events

\* The tree below root is a binary search tree keyed by target: the root has
\* no parent, every child names its parent, the targets of a left subtree
\* are smaller and those of a right subtree larger than the node's.
WellFormedTree(dp, root) ==
    /\ root # Null => dp[root].parent = Null
    /\ \A d \in TreeNodes(dp, root) :
          /\ dp[d].left # Null =>
                /\ dp[dp[d].left].parent = d
                /\ \A e \in TreeNodes(dp, dp[d].left) : dp[e].B < dp[d].B
          /\ dp[d].right # Null =>
                /\ dp[dp[d].right].parent = d
                /\ \A e \in TreeNodes(dp, dp[d].right) : dp[e].B > dp[d].B

RECURSIVE InOrder(_, _)
InOrder(dp, d) ==
    IF d = Null THEN << >>
    ELSE InOrder(dp, dp[d].left) \o <<dp[d].B>> \o InOrder(dp, dp[d].right)

(***************************************************************************)
(* C34: splay(dep) on a node of a binary search tree of Dependency records *)
(* ends with dep as the root (no parent, the Object's dependencies pointer *)
(* on it), with the same nodes, the same targets from left to right, and   *)
(* parent links that agree with the child links.                           *)
(***************************************************************************)
C34_SplayMakesRoot ==
    [][last'.op = "splay" =>
          /\ WellFormedTree(deps, objects[1].dependencies)
          /\ objects'[1].dependencies = last'.a
          /\ deps'[last'.a].parent = Null
          /\ TreeNodes(deps', last'.a) = TreeNodes(deps, objects[1].dependencies)
          /\ InOrder(deps', last'.a) = InOrder(deps, objects[1].dependencies)
          /\ WellFormedTree(deps', last'.a)
          /\ \A d \in TreeId : /\ deps'[d].B = deps[d].B
                               /\ deps'[d].A = deps[d].A]_vars

\* A node three links below the root of a tree of MaxNodes records has been
\* splayed to the root, beginning with a zig-zag step.
C34_Witness ==
    /\ last.op = "splay"
    /\ objects[1].dependencies = last.a
    /\ <<"depth", 3>> \in events
    /\ <<"case", "zigzag-left-right">> \in events
    /\ Cardinality(allocated) = MaxNodes

\* C32: erase(index, count) on a string of size n removes exactly the
\* characters at positions [index, min(index + count, n)) and keeps the others
\* in their order; with index >= n the string is unchanged; in both cases
\* mark_modified(this) is issued.
C32_EraseRemovesRange ==
    [][last'.op = "erase" =>
          LET s == last'.a
              index == last'.b[1]
              count == last'.b[2]
              old == Contents(strings[s])
              n == Len(old)
              end == IF index + count < n THEN index + count ELSE n
          IN  /\ Contents(strings'[s]) =
                    IF index < n THEN SubSeq(old, 1, index) \o SubSeq(old, end + 1, n)
                    ELSE old
              /\ <<"markModified", s>> \in events']_vars

\* C33: operator+=(const ms_string& o) with this different from &o never
\* triggers a spatial failure and leaves the string holding its old contents
\* followed by o's, also when either string is empty and when the capacity
\* after reserve equals the new size.
C33_AppendConcatenates ==
    [][last'.op = "append" /\ last'.a # last'.b =>
          /\ <<"spatial">> \notin events'
          /\ pc' = "idle"
          /\ Contents(strings'[last'.a]) =
                Contents(strings[last'.a]) \o Contents(strings[last'.b])]_vars

====
